---- MODULE Spec2Model ----
(***************************************************************************)
(* A model of src/src/tjxd/interp.py: the workflow functions of the        *)
(* image-guided interpolation script, run by main against the files of     *)
(* the data directory.                                                     *)
(*                                                                         *)
(* Floats are fixed-point integers counted in 1/Unit, so 1.0 is Unit and   *)
(* 0.0001 is Unit \div 10000.  A volume is a function from the voxels      *)
(* <<i2, i1>> of an n2 x n1 grid (n3 = 1) to such numbers.                  *)
(***************************************************************************)
EXTENDS Integers, Sequences, FiniteSets, TLC

VARIABLES
    fn,     \* the workflow function main is running
    pc,     \* the line of fn about to run, or "done" / "raised"
    n1,     \* samples per trace (s1.count, line 12)
    n2,     \* traces (s2.count, line 12)
    disk,   \* the data directory: file name -> content
    env,    \* the local variables of fn
    out,    \* the calls made so far on displays, analyses and writers
    exc,    \* the exception that ended the run, or "none"
    run     \* how many times main has been started

vars == <<fn, pc, n1, n2, disk, env, out, exc, run>>

----------------------------------------------------------------------------
\* Bounds of the model.

\* Fixed-point resolution: floats are counted in 1/Unit.
Unit == 10000
\* Samples per trace of the small grids.
MaxN1 == 2
\* Traces of the small grids.
MaxN2 == 2
\* Times main is started.
MaxRuns == 2

One == Unit

Vox == (0 .. n2 - 1) \X (0 .. n1 - 1)

\* locals: bind name to value
Bind(e, name, val) ==
    [k \in DOMAIN e \cup {name} |-> IF k = name THEN val ELSE e[k]]

NoEnv == [k \in {} |-> 0]

\* the file system after writeImage(name, val)
Write(d, name, val) ==
    [k \in DOMAIN d \cup {name} |-> IF k = name THEN val ELSE d[k]]

----------------------------------------------------------------------------
\* File names (lines 17-40).
gxfile == "gx"
gmfile == "gm"
pxfile == "px"
qxfile == "qx"
txfile == "tx"
exfile == "ex"
exsfile == "exs"
s1file == "sx1"
s2file == "sx2"
s3file == "sx3"
epfile == "ep"
fefile == "fe"
fpfile == "fp"
fvfile == "fv"
plotOnly == TRUE
logType == "velocity"

----------------------------------------------------------------------------
\* VolumeMask (ZeroMask).

\* ZeroMask(gm): the mask is true where the binary volume is non-zero.
ZeroMask(gm) == [v \in DOMAIN gm |-> gm[v] # 0]

\* mask.apply(fillValue, x): overwrite x where the mask is false.
MaskApply(mask, fillValue, x) ==
    [v \in DOMAIN x |-> IF mask[v] THEN x[v] ELSE fillValue]

----------------------------------------------------------------------------
\* goSemblance (lines 151-164).

smfiles == <<s1file, s2file, s3file>>

\* lines 160-163: the fill value chosen for the file of this iteration
SemblanceFillAllOne(smfile) == One

SemblanceFill(smfile) ==
    IF smfile = s3file THEN Unit \div 10000 ELSE One

\* line 152
Semblance_Mask ==
    /\ fn = "goSemblance" /\ pc = "L152"
    /\ env' = Bind(Bind(env, "mask", ZeroMask(disk[gmfile])), "k", 1)
    /\ pc' = "L159"
    /\ UNCHANGED <<fn, n1, n2, disk, out, exc, run>>

\* lines 158-159
Semblance_Read ==
    /\ fn = "goSemblance" /\ pc = "L159"
    /\ env' = Bind(env, "sm", disk[smfiles[env.k]])
    /\ pc' = "L160"
    /\ UNCHANGED <<fn, n1, n2, disk, out, exc, run>>

\* lines 160-163
Semblance_Apply ==
    /\ fn = "goSemblance" /\ pc = "L160"
    /\ env' = Bind(env, "sm",
                   MaskApply(env.mask, SemblanceFill(smfiles[env.k]), env.sm))
    /\ pc' = "L164"
    /\ UNCHANGED <<fn, n1, n2, disk, out, exc, run>>

\* line 164, and the loop's next iteration or end
Semblance_Write ==
    /\ fn = "goSemblance" /\ pc = "L164"
    /\ disk' = Write(disk, smfiles[env.k], env.sm)
    /\ out' = Append(out, <<"writeImage", smfiles[env.k]>>)
    /\ IF env.k < Len(smfiles)
         THEN /\ env' = Bind(env, "k", env.k + 1)
              /\ pc' = "L159"
         ELSE /\ env' = env
              /\ pc' = "done"
    /\ UNCHANGED <<fn, n1, n2, exc, run>>

\* main is started again on the files the last run left
Semblance_Rerun ==
    /\ fn = "goSemblance" /\ pc = "done" /\ run < MaxRuns
    /\ run' = run + 1
    /\ pc' = "L152"
    /\ env' = NoEnv
    /\ out' = <<>>
    /\ UNCHANGED <<fn, n1, n2, disk, exc>>

\* confidence values found in the semblance files
SemblanceVals == {0, Unit \div 2}

InitSemblance ==
    /\ fn = "goSemblance" /\ pc = "L152"
    /\ n1 = MaxN1 /\ n2 = 1
    /\ \E gm \in [Vox -> {0, One}], a \in [Vox -> SemblanceVals],
          b \in [Vox -> SemblanceVals], c \in [Vox -> SemblanceVals] :
          disk = [k \in {gmfile, s1file, s2file, s3file} |->
                    CASE k = gmfile -> gm [] k = s1file -> a
                      [] k = s2file -> b [] OTHER -> c]
    /\ env = NoEnv /\ out = <<>> /\ exc = "none" /\ run = 1

NextSemblance ==
    \/ Semblance_Mask \/ Semblance_Read \/ Semblance_Apply
    \/ Semblance_Write \/ Semblance_Rerun

SpecSemblance == InitSemblance /\ [][NextSemblance]_vars

\* C1: after mask.apply(fillValue, sm) in goSemblance every voxel where the
\* mask is false equals the fill value (0.0001 for sx3, 1.00 for sx1 and sx2)
\* and every voxel where the mask is true keeps the value read from the file;
\* on a second run over the files the first run wrote, apply changes nothing.
C1_MaskApply ==
    (fn = "goSemblance" /\ pc = "L164") =>
        LET smfile == smfiles[env.k]
            before == disk[smfile]
            fillValue == IF env.k = 3 THEN Unit \div 10000 ELSE Unit
        IN  /\ \A v \in Vox :
                 /\ ~env.mask[v] => env.sm[v] = fillValue
                 /\ env.mask[v] => env.sm[v] = before[v]
            /\ run >= 2 => env.sm = before

\* C1 witness: the second run has applied the mask to sx3, with voxels on
\* both sides of the mask.
C1_Witness ==
    /\ fn = "goSemblance" /\ pc = "L164" /\ run = 2 /\ env.k = 3
    /\ \E v, w \in Vox :
          /\ ~env.mask[v] /\ env.mask[w]
          /\ env.sm[v] = Unit \div 10000 /\ env.sm[w] = Unit \div 2

----------------------------------------------------------------------------
\* Array operations used by scaleTensors.

\* clip(xmin, xmax, x): each value below xmin becomes xmin, each above xmax
\* becomes xmax.
clip(xmin, xmax, x) ==
    [v \in DOMAIN x |->
        IF x[v] < xmin THEN xmin ELSE IF x[v] > xmax THEN xmax ELSE x[v]]

\* a to the power k, in fixed point
RECURSIVE powf(_, _)
powf(a, k) == IF k = 0 THEN Unit ELSE (a * powf(a, k - 1)) \div Unit

\* pow(x, k)
pow(x, k) == [v \in DOMAIN x |-> powf(x[v], k)]

\* line 144 without effect: x keeps its values
fillKeeps(a, x) == x

\* fill(a, x)
fill(a, x) == [v \in DOMAIN x |-> a]

\* ex.setEigenvalues(au, av, aw): the eigenvalues are replaced, the
\* eigenvectors kept.
setEigenvalues(ex, au, av, aw) ==
    [ex EXCEPT !.au = au, !.av = av, !.aw = aw]

----------------------------------------------------------------------------
\* scaleTensors(eps) (lines 138-149).

\* lines 145-147 with the clip of sx2 left out
ScaleClipNoSx2(e) ==
    Bind(Bind(e, "sx1", clip(e.eps, One, e.sx1)),
         "sx3", clip(e.eps, One, e.sx3))

\* lines 145-147
ScaleClip(e) ==
    Bind(Bind(Bind(e, "sx1", clip(e.eps, One, e.sx1)),
              "sx2", clip(e.eps, One, e.sx2)),
         "sx3", clip(e.eps, One, e.sx3))

\* lines 139-142
Scale_Read ==
    /\ fn = "scaleTensors" /\ pc = "L139"
    /\ env' = Bind(Bind(Bind(Bind(env, "ex", disk[exfile]),
                             "sx1", disk[s1file]),
                        "sx2", disk[s2file]),
                   "sx3", disk[s3file])
    /\ pc' = "L143"
    /\ UNCHANGED <<fn, n1, n2, disk, out, exc, run>>

\* line 143
Scale_Pow ==
    /\ fn = "scaleTensors" /\ pc = "L143"
    /\ env' = Bind(env, "sx2", pow(env.sx2, 4))
    /\ pc' = "L144"
    /\ UNCHANGED <<fn, n1, n2, disk, out, exc, run>>

\* line 144
Scale_Fill ==
    /\ fn = "scaleTensors" /\ pc = "L144"
    /\ env' = Bind(env, "sx3", fill(env.eps, env.sx3))
    /\ pc' = "L145"
    /\ UNCHANGED <<fn, n1, n2, disk, out, exc, run>>

\* lines 145-147
Scale_Clip ==
    /\ fn = "scaleTensors" /\ pc = "L145"
    /\ env' = ScaleClip(env)
    /\ pc' = "L148"
    /\ UNCHANGED <<fn, n1, n2, disk, out, exc, run>>

\* line 148
Scale_SetEigenvalues ==
    /\ fn = "scaleTensors" /\ pc = "L148"
    /\ env' = Bind(env, "ex",
                   setEigenvalues(env.ex, env.sx3, env.sx2, env.sx1))
    /\ pc' = "L149"
    /\ UNCHANGED <<fn, n1, n2, disk, out, exc, run>>

\* line 149
Scale_Write ==
    /\ fn = "scaleTensors" /\ pc = "L149"
    /\ disk' = Write(disk, exsfile, env.ex)
    /\ out' = Append(out, <<"writeTensors", exsfile>>)
    /\ pc' = "done"
    /\ UNCHANGED <<fn, n1, n2, env, exc, run>>

\* the tensors goTensors wrote: unit eigenvalues, eigenvectors "uvw"
UnitTensors ==
    [au |-> [v \in Vox |-> One], av |-> [v \in Vox |-> One],
     aw |-> [v \in Vox |-> One], uvw |-> "uvw"]

\* confidence values: zero, one half, one and a half
ConfidenceVals == {0, Unit \div 2, (3 * Unit) \div 2}
\* what goSemblance left in masked voxels of sx3, or a value above 1
Confidence3Vals == {Unit \div 10000, (3 * Unit) \div 2}
\* eps: 0.001 (line 73), 1.0, and outside (0,1]: 0 and 1.5
EpsVals == {Unit \div 1000, One, 0, (3 * Unit) \div 2}

InitScale ==
    /\ fn = "scaleTensors" /\ pc = "L139"
    /\ n1 = MaxN1 /\ n2 = 1
    /\ \E a \in [Vox -> ConfidenceVals], b \in [Vox -> ConfidenceVals],
          c \in [Vox -> Confidence3Vals] :
          disk = [k \in {exfile, s1file, s2file, s3file} |->
                    CASE k = exfile -> UnitTensors [] k = s1file -> a
                      [] k = s2file -> b [] OTHER -> c]
    /\ \E eps \in EpsVals : env = Bind(NoEnv, "eps", eps)
    /\ out = <<>> /\ exc = "none" /\ run = 1

NextScale ==
    \/ Scale_Read \/ Scale_Pow \/ Scale_Fill \/ Scale_Clip
    \/ Scale_SetEigenvalues \/ Scale_Write

SpecScale == InitScale /\ [][NextScale]_vars

\* C2: after scaleTensors(eps) with 0 < eps <= 1, the three eigenvalue
\* volumes given to setEigenvalues, and written to the scaled-tensor file,
\* lie in [eps, 1.0] at every voxel, whatever the confidence files held.
C2_EigenvaluesInRange ==
    (fn = "scaleTensors" /\ 0 < env.eps /\ env.eps <= Unit) =>
        /\ pc \in {"L149", "done"} =>
             \A v \in Vox : \A a \in {env.ex.au, env.ex.av, env.ex.aw} :
                 env.eps <= a[v] /\ a[v] <= Unit
        /\ pc = "done" =>
             \A v \in Vox :
                 \A a \in {disk[exsfile].au, disk[exsfile].av, disk[exsfile].aw} :
                     env.eps <= a[v] /\ a[v] <= Unit

\* C2 witness: scaleTensors(0.001) has finished on confidence files that
\* held a 0 in sx1 and a value above 1 in sx2.
C2_Witness ==
    /\ fn = "scaleTensors" /\ pc = "done" /\ env.eps = Unit \div 1000
    /\ \E v, w \in Vox :
          /\ disk[s1file][v] = 0 /\ disk[exsfile].aw[v] = env.eps
          /\ disk[s2file][w] > Unit /\ disk[exsfile].av[w] = Unit

----------------------------------------------------------------------------
\* Name resolution.

\* The names the module binds at top level (lines 11-63 and every def).
ModuleNames ==
    {"s1", "s2", "s3", "n1", "n2", "n3", "f1", "f2", "f3", "d1", "d2", "d3",
     "l1", "l2", "l3", "gxfile", "gmfile", "pxfile", "qxfile", "txfile",
     "exfile", "exsfile", "s1file", "s2file", "s3file", "sxfile", "epfile",
     "effile", "fefile", "fpfile", "ftfile", "fvfile", "fetfile", "fptfile",
     "fttfile", "vpfile", "vtfile", "epvfile", "pngDir", "plotOnly",
     "minTheta", "maxTheta", "minPhi", "maxPhi", "sigmaPhi", "sigmaTheta",
     "background", "c2s", "c3s", "wns", "logDir", "dvtDir", "logType",
     "main", "goImageGuidedInterp", "gridWellLogs", "goDisplay",
     "goMaskImage", "goTensors", "scaleTensors", "goSemblance", "semblance1",
     "semblance2", "semblance3", "getLogSamples", "getLogLocation",
     "goFaultLikelihood", "goPlanar", "goFaultOrientScan", "goSurfaceVoting",
     "showSub1", "showSub2", "showSub3", "goSkins", "goFvPlanar", "gain",
     "normalize", "plot3", "plot3f"}

\* A name resolves when the function has bound it or the module has; the
\* names taken from utils3 are the library calls, none of them a variable
\* this file reads.
Resolves(name, e) == name \in DOMAIN e \/ name \in ModuleNames

----------------------------------------------------------------------------
\* Well logs (lines 53-63, 191-218).

\* the first two wells of the tables of lines 53-60
c2s == <<670916, 660065>>
c3s == <<4530909, 4532272>>
wns == <<"YC1", "YJ1-3">>

\* getLogLocation(name), lines 213-218
getLogLocation(name) ==
    LET wi == CHOOSE i \in 1 .. Len(wns) : wns[i] = name
    IN  <<c2s[wi], c3s[wi]>>

\* getLogSamples(curve), lines 191-211: the samples of every log in turn,
\* each with its well's map location.  The result is <<fk, k1, k2, k3>>.
RECURSIVE getLogSamples(_)
getLogSamples(logs) ==
    IF logs = <<>> THEN <<<<>>, <<>>, <<>>, <<>>>>
    ELSE LET log == Head(logs)
             loc == getLogLocation(log.name)
             rest == getLogSamples(Tail(logs))
         IN  << log.fx \o rest[1],
                log.x1 \o rest[2],
                [k \in 1 .. Len(log.fx) |-> loc[1]] \o rest[3],
                [k \in 1 .. Len(log.fx) |-> loc[2]] \o rest[4] >>

\* The samplings of the grid (line 11): axis 1 counts depth from 0 in steps
\* of one sample; axes 2 and 3 hold the one trace at the first well.
Sampling1 == [first |-> 0, delta |-> Unit, count |-> n1]
Sampling2 == [first |-> c2s[1], delta |-> 1, count |-> n2]
Sampling3 == [first |-> c3s[1], delta |-> 1, count |-> 1]

----------------------------------------------------------------------------
\* SparseDataInserter (WellLogGridder).

\* the index nearest coordinate x: (x - first)/delta rounded half up
RoundIndex(s, x) == (2 * (x - s.first) + s.delta) \div (2 * s.delta)

InBounds(s, i) == 0 <= i /\ i < s.count

\* WellLogGridder(s1, s2, s3, fnull): every voxel holds the null value
WellLogGridder(fnull) ==
    [g |-> [v \in Vox |-> fnull], dropped |-> 0]

\* insertWellLog(fx, x1, x2, x3): each sample in turn is written to the
\* voxel its coordinates round to, or dropped and counted when that voxel
\* is outside the grid.
RECURSIVE insertWellLog(_, _, _, _, _)
insertWellLog(wlg, fx, x1, x2, x3) ==
    IF fx = <<>> THEN wlg
    ELSE LET i1 == RoundIndex(Sampling1, Head(x1))
             i2 == RoundIndex(Sampling2, Head(x2))
             i3 == RoundIndex(Sampling3, Head(x3))
             ok == /\ InBounds(Sampling1, i1) /\ InBounds(Sampling2, i2)
                   /\ InBounds(Sampling3, i3)
             nxt == IF ok
                      THEN [wlg EXCEPT !.g[<<i2, i1>>] = Head(fx)]
                      ELSE [wlg EXCEPT !.dropped = @ + 1]
         IN  insertWellLog(nxt, Tail(fx), Tail(x1), Tail(x2), Tail(x3))

getGriddedValues(wlg) == wlg.g

----------------------------------------------------------------------------
\* gridWellLogs(logType) (lines 102-113).

\* line 103 with a null value of 1.0
fnullOne == Unit

\* line 103
fnull == 0

\* lines 104-108 with x1 and x2 exchanged in the call of insertWellLog
WellLogsGriddedSwapped(fx, x1, x2, x3) ==
    insertWellLog(WellLogGridder(fnull), fx, x2, x1, x3)

\* lines 104 and 107: the gridder after the samples are inserted
WellLogsGridded(fx, x1, x2, x3) ==
    insertWellLog(WellLogGridder(fnull), fx, x1, x2, x3)

\* "wg"+logType[0], lines 88 and 109
gfile == "wgv"

\* lines 103-106
WLG_Samples ==
    /\ fn = "gridWellLogs" /\ pc = "L103"
    /\ LET s == getLogSamples(disk["logs"])
       IN  env' = Bind(Bind(Bind(Bind(Bind(env, "fnull", fnull),
                      "fx", s[1]), "x1", s[2]), "x2", s[3]), "x3", s[4])
    /\ pc' = "L107"
    /\ UNCHANGED <<fn, n1, n2, disk, out, exc, run>>

\* line 107 (on the gridder of line 104)
WLG_Insert ==
    /\ fn = "gridWellLogs" /\ pc = "L107"
    /\ env' = Bind(env, "wlg", WellLogsGridded(env.fx, env.x1, env.x2, env.x3))
    /\ pc' = "L108"
    /\ UNCHANGED <<fn, n1, n2, disk, out, exc, run>>

\* lines 108-110
WLG_Write ==
    /\ fn = "gridWellLogs" /\ pc = "L108"
    /\ env' = Bind(env, "g", getGriddedValues(env.wlg))
    /\ disk' = Write(disk, gfile, getGriddedValues(env.wlg))
    /\ out' = Append(out, <<"writeImage", gfile>>)
    /\ pc' = "L111"
    /\ UNCHANGED <<fn, n1, n2, exc, run>>

\* lines 111-113
WLG_Plot ==
    /\ fn = "gridWellLogs" /\ pc = "L111"
    /\ out' = out \o << <<"plot3", "g">>, <<"plot3", "g">> >>
    /\ pc' = "done"
    /\ UNCHANGED <<fn, n1, n2, disk, env, exc, run>>

----------------------------------------------------------------------------
\* AnisotropicGridder (BlendedGridder3) on a line along axis 1.

\* the distance of a voxel no sample reaches
Infinity == Unit * Unit

\* the tensor-weighted cost of the step between voxels i and i+1 of the line
StepCost(ex, i) == (ex.au[<<0, i>>] + ex.au[<<0, i + 1>>]) \div 2

\* the accumulated cost of the path between voxels a and b of the line
RECURSIVE PathCost(_, _, _)
PathCost(ex, a, b) ==
    IF a = b THEN 0
    ELSE IF a > b THEN PathCost(ex, b, a)
    ELSE StepCost(ex, a) + PathCost(ex, a + 1, b)

\* the voxels of p that hold a sample
Sources(pnull, p) == {v \in DOMAIN p : p[v] # pnull}

\* the distance from voxel v to the nearest source
NearestDistance(ex, srcs, v) ==
    IF srcs = {} THEN Infinity
    ELSE LET ds == {PathCost(ex, v[2], s[2]) : s \in srcs}
         IN  CHOOSE d \in ds : \A e \in ds : d <= e

\* gridNearest(pnull, p): every outcome <<p, t>> in which each voxel holds the
\* value of some nearest source (any of them on a tie) and t its distance;
\* p is left as it is when it holds no sample.
gridNearest(ex, pnull, p) ==
    LET srcs == Sources(pnull, p)
        t == [v \in DOMAIN p |-> NearestDistance(ex, srcs, v)]
        cand(v) == {p[s] : s \in {r \in srcs : PathCost(ex, v[2], r[2]) = t[v]}}
        vals == {p[s] : s \in srcs}
    IN  IF srcs = {} THEN {<<p, t>>}
        ELSE {<<q, t>> : q \in {r \in [DOMAIN p -> vals] :
                                   \A v \in DOMAIN p : r[v] \in cand(v)}}

\* BlendedGridder3(ex): a gridder over the tensors, smoothness not yet set
BlendedGridder3(ex) == [tensors |-> ex, smoothness |-> "default"]

----------------------------------------------------------------------------
\* goImageGuidedInterp (lines 85-96).

\* line 89 with a null value of 100 in place of 0.0
InterpNearestNull100(bi, px) == gridNearest(bi.tensors, 100, px)

\* line 89: bi.gridNearest(0.0, px)
InterpNearest(bi, px) == gridNearest(bi.tensors, 0, px)

\* main goes on from gridWellLogs (line 68) to goImageGuidedInterp (line 74)
Main_Interp ==
    /\ fn = "gridWellLogs" /\ pc = "done"
    /\ fn' = "goImageGuidedInterp" /\ pc' = "L86"
    /\ env' = NoEnv
    /\ UNCHANGED <<n1, n2, disk, out, exc, run>>

\* lines 86-87
IGI_Gridder ==
    /\ fn = "goImageGuidedInterp" /\ pc = "L86"
    /\ env' = Bind(Bind(env, "ex", disk[exsfile]),
                   "bi", BlendedGridder3(disk[exsfile]))
    /\ pc' = "L88"
    /\ UNCHANGED <<fn, n1, n2, disk, out, exc, run>>

\* line 88
IGI_ReadSparse ==
    /\ fn = "goImageGuidedInterp" /\ pc = "L88"
    /\ env' = Bind(env, "px", disk[gfile])
    /\ pc' = "L89"
    /\ UNCHANGED <<fn, n1, n2, disk, out, exc, run>>

\* line 89: px is filled in place, tx is the distance volume returned
IGI_Nearest ==
    /\ fn = "goImageGuidedInterp" /\ pc = "L89"
    /\ \E r \in InterpNearest(env.bi, env.px) :
          env' = Bind(Bind(env, "px", r[1]), "tx", r[2])
    /\ out' = Append(out, <<"gridNearest", "bi">>)
    /\ pc' = "L90"
    /\ UNCHANGED <<fn, n1, n2, disk, exc, run>>

\* line 90
IGI_WritePx ==
    /\ fn = "goImageGuidedInterp" /\ pc = "L90"
    /\ disk' = Write(disk, pxfile, env.px)
    /\ out' = Append(out, <<"writeImage", pxfile>>)
    /\ pc' = "L91"
    /\ UNCHANGED <<fn, n1, n2, env, exc, run>>

\* line 91
IGI_WriteTx ==
    /\ fn = "goImageGuidedInterp" /\ pc = "L91"
    /\ disk' = Write(disk, txfile, env.tx)
    /\ out' = Append(out, <<"writeImage", txfile>>)
    /\ pc' = "L92"
    /\ UNCHANGED <<fn, n1, n2, env, exc, run>>

\* line 92: bg.setSmoothness(1.0).  The gridder of line 87 is bound to bi;
\* bg is bound nowhere, so the lookup raises NameError and lines 93-96
\* (clip, copy, gridBlended, writeImage(qxfile)) are not reached.
IGI_Smoothness ==
    /\ fn = "goImageGuidedInterp" /\ pc = "L92"
    /\ IF Resolves("bg", env)
         THEN /\ pc' = "L93"
              /\ exc' = exc
              /\ out' = Append(out, <<"setSmoothness", "bg">>)
         ELSE /\ pc' = "raised"
              /\ exc' = "NameError"
              /\ out' = out
    /\ UNCHANGED <<fn, n1, n2, disk, env, run>>

----------------------------------------------------------------------------
\* The gridding run: gridWellLogs, then goImageGuidedInterp.

\* Samples of the well logs in one run.
MaxSamples == 2
\* Voxels of the short lines the logs are gridded on.
MaxLine == 3
\* Voxels of the line of the two-sample scenario.
LineN == 10

\* log values: 0.0 (which is also the null value), 50 and 100
FVals == {0, 50, 100}
\* depths: -1.0 (above the grid), 0.0, 0.5, the last sample and n1 (below
\* the grid)
X1Vals == {0 - Unit, 0, Unit \div 2, (n1 - 1) * Unit, n1 * Unit}

\* the logs that hold the readings rs, well by well in the order of wns
LogsOf(rs) ==
    LET of(w) == SelectSeq(rs, LAMBDA r : r.well = w)
        log(w) == [name |-> w,
                   fx |-> [k \in 1 .. Len(of(w)) |-> of(w)[k].f],
                   x1 |-> [k \in 1 .. Len(of(w)) |-> of(w)[k].x1]]
    IN  SelectSeq(<<log(wns[1]), log(wns[2])>>, LAMBDA l : l.fx # <<>>)

\* scaled tensors along the line: isotropic, and with a smaller first
\* eigenvalue at the top voxel
IsotropicTensors == UnitTensors
GradedTensors ==
    [UnitTensors EXCEPT
        !.au = [v \in Vox |-> IF v[2] = 0 THEN Unit \div 2 ELSE One]]

InitInterp ==
    /\ fn = "gridWellLogs" /\ pc = "L103"
    /\ n2 = 1
    /\ \/ /\ n1 = MaxLine
          /\ \E len \in 1 .. MaxSamples :
               \E rs \in [1 .. len ->
                            [well : {wns[1], wns[2]}, f : FVals, x1 : X1Vals]] :
               \E ex \in {IsotropicTensors, GradedTensors} :
                 disk = [k \in {"logs", exsfile} |->
                           IF k = "logs" THEN LogsOf(rs) ELSE ex]
       \/ /\ n1 = LineN
          /\ disk = [k \in {"logs", exsfile} |->
                       IF k = "logs"
                         THEN << [name |-> wns[1], fx |-> <<0, 100>>,
                                  x1 |-> <<0, (n1 - 1) * Unit>>] >>
                         ELSE IsotropicTensors]
    /\ env = NoEnv /\ out = <<>> /\ exc = "none" /\ run = 1

NextInterp ==
    \/ WLG_Samples \/ WLG_Insert \/ WLG_Write \/ WLG_Plot \/ Main_Interp
    \/ IGI_Gridder \/ IGI_ReadSparse \/ IGI_Nearest \/ IGI_WritePx
    \/ IGI_WriteTx \/ IGI_Smoothness

SpecInterp == InitInterp /\ [][NextInterp]_vars

\* the samples that land in voxel v: those whose three coordinates round to
\* it (positions in insertion order)
Hits(fx, x1, x2, x3, v) ==
    {k \in 1 .. Len(fx) :
        /\ RoundIndex(Sampling1, x1[k]) = v[2]
        /\ RoundIndex(Sampling2, x2[k]) = v[1]
        /\ RoundIndex(Sampling3, x3[k]) = 0}

\* the samples that land outside the grid on some axis
Outside(fx, x1, x2, x3) ==
    {k \in 1 .. Len(fx) :
        \/ ~InBounds(Sampling1, RoundIndex(Sampling1, x1[k]))
        \/ ~InBounds(Sampling2, RoundIndex(Sampling2, x2[k]))
        \/ ~InBounds(Sampling3, RoundIndex(Sampling3, x3[k]))}

Last(ks) == CHOOSE k \in ks : \A j \in ks : j <= k

AfterInsert == fn = "gridWellLogs" /\ pc \in {"L108", "L111", "done"}
AfterNearest ==
    fn = "goImageGuidedInterp" /\ pc \in {"L90", "L91", "L92", "raised"}

\* C3: after bi.gridNearest(0.0, px) every voxel that held a non-null sample
\* in the sparse volume holds that sample's value and has distance 0, and
\* every distance is non-negative.
C3_NearestKeepsSamples ==
    AfterNearest =>
        /\ \A v \in Vox :
              disk[gfile][v] # 0 =>
                  env.px[v] = disk[gfile][v] /\ env.tx[v] = 0
        /\ \A v \in Vox : env.tx[v] >= 0

\* C3 witness: gridNearest has run on a sparse volume with two different
\* samples and a null voxel, which it filled.
C3_Witness ==
    /\ AfterNearest /\ pc = "L90"
    /\ \E u, v, w \in Vox :
          /\ disk[gfile][u] = 50 /\ disk[gfile][v] = 100
          /\ disk[gfile][w] = 0 /\ env.px[w] # 0 /\ env.tx[w] > 0

Without(q, ks) ==
    LET keep == {k \in 1 .. Len(q) : k \notin ks}
        nth[i \in 0 .. Cardinality(keep)] ==
            IF i = 0 THEN 0
            ELSE CHOOSE k \in keep :
                   /\ k > nth[i - 1]
                   /\ \A j \in keep : j > nth[i - 1] => k <= j
    IN  [i \in 1 .. Cardinality(keep) |-> q[nth[i]]]

C7_TwoSampleLine ==
    (n1 = LineN /\ fn = "goImageGuidedInterp") =>
        /\ pxfile \in DOMAIN disk =>
             \A v \in Vox :
                 disk[pxfile][v] = IF 2 * v[2] < n1 - 1 THEN 0 ELSE 100
        /\ pc \in {"done", "raised"} =>
             /\ qxfile \in DOMAIN disk
             /\ \A v \in Vox : 0 <= disk[qxfile][v] /\ disk[qxfile][v] <= 100
             /\ \A v, w \in Vox :
                    v[2] <= w[2] => disk[qxfile][v] <= disk[qxfile][w]

\* the stages of a whole run of goImageGuidedInterp, in order
InterpStages ==
    << <<"gridNearest", "bi">>, <<"writeImage", pxfile>>,
       <<"writeImage", txfile>>, <<"setSmoothness", "bi">>,
       <<"gridBlended", "bi">>, <<"writeImage", qxfile>> >>

\* C8: every run of goImageGuidedInterp ends normally, having gone through
\* its stages in order: nearest fill, px and tx written, smoothness set on
\* the same gridder, the blended solve, qx written.
C8_StagesInOrder ==
    (fn = "goImageGuidedInterp" /\ pc \in {"done", "raised"}) =>
        /\ pc = "done" /\ exc = "none"
        /\ SelectSeq(out, LAMBDA c : c \in {InterpStages[i] : i \in 1 .. 6})
             = InterpStages

\* C10: the run of goImageGuidedInterp never ends without the blended solve
\* having returned, converged or flagged as not converged.
C10_BlendedSolveReturns ==
    (fn = "goImageGuidedInterp" /\ pc \in {"done", "raised"}) =>
        \E i \in 1 .. Len(out) :
            /\ out[i][1] = "gridBlended"
            /\ "converged" \in DOMAIN env
            /\ env.converged \in BOOLEAN

----------------------------------------------------------------------------
\* GainNormalizer: gain(x) (lines 451-457).

\* RecursiveExponentialFilter(100.0), line 453
sigma == 100

\* the filter's coefficient a = (1 + ss - sqrt(1 + 2 ss)) / ss, ss = sigma^2,
\* in fixed point
SmoothA ==
    LET ss == sigma * sigma
        rt == CHOOSE r \in 0 .. 2 * sigma :
                  r * r <= 1 + 2 * ss /\ 1 + 2 * ss < (r + 1) * (r + 1)
    IN  ((1 + ss - rt) * Unit) \div ss

\* mul(x, x)
mul(x, y) == [v \in DOMAIN x |-> (x[v] * y[v]) \div Unit]

\* ref.apply1(g, g): along axis 1 of every trace, a causal pass
\* c[i] = a c[i-1] + (1-a) g[i] followed by an anticausal pass
\* z[i] = a z[i+1] + (1-a) c[i]
apply1(g) ==
    LET a == SmoothA
        b == Unit - SmoothA
        c[v \in DOMAIN g] ==
            IF v[2] = 0 THEN g[v]
            ELSE (a * c[<<v[1], v[2] - 1>>] + b * g[v]) \div Unit
        z[v \in DOMAIN g] ==
            IF <<v[1], v[2] + 1>> \notin DOMAIN g THEN c[v]
            ELSE (a * z[<<v[1], v[2] + 1>>] + b * c[v]) \div Unit
    IN  [v \in DOMAIN g |-> z[v]]

\* the float values that are no number: 0/0, x/0 for x > 0 and for x < 0,
\* kept apart from every finite fixed-point value
NaN == 0 - 3 * Unit * Unit
PlusInfinity == 2 * Unit * Unit
MinusInfinity == 0 - 2 * Unit * Unit

\* the largest r in lo .. hi with r * r <= n
RECURSIVE RootIn(_, _, _)
RootIn(n, lo, hi) ==
    IF lo = hi THEN lo
    ELSE LET mid == (lo + hi + 1) \div 2
         IN  IF mid * mid <= n THEN RootIn(n, mid, hi)
             ELSE RootIn(n, lo, mid - 1)

\* sqrt(g) in fixed point, for g in 0 .. 4.0
sqrtf(a) == RootIn(a * Unit, 0, 2 * Unit)

\* the float quotient a / b
divf(a, b) ==
    IF b # 0 THEN (a * Unit) \div b
    ELSE IF a = 0 THEN NaN
    ELSE IF a > 0 THEN PlusInfinity ELSE MinusInfinity

\* div(x, sqrt(g), y)
divSqrt(x, g) == [v \in DOMAIN x |-> divf(x[v], sqrtf(g[v]))]

IsNaN(q) == q = NaN
IsInfinite(q) == q \in {PlusInfinity, MinusInfinity}

\* lines 451-457
gain(x) == divSqrt(x, apply1(mul(x, x)))

----------------------------------------------------------------------------
\* The workflow functions that show the base image: goDisplay (115-120),
\* goFaultLikelihood (220-241), goPlanar (243-260), goFaultOrientScan
\* (262-284), goSurfaceVoting (286-307).  plotOnly is True (line 45): the
\* branches under "if not plotOnly" are not run.

\* sub(1, x)
sub1(x) == [v \in DOMAIN x |-> Unit - x[v]]

\* line 117 left out
DisplayImageAsRead(x) == x

\* line 117: gx = gain(gx)
DisplayImage(x) == gain(x)

\* line 116
Display_Read ==
    /\ fn = "goDisplay" /\ pc = "L116"
    /\ env' = Bind(env, "gx", disk[gxfile])
    /\ pc' = "L117"
    /\ UNCHANGED <<fn, n1, n2, disk, out, exc, run>>

\* line 117
Display_Gain ==
    /\ fn = "goDisplay" /\ pc = "L117"
    /\ env' = Bind(env, "gx", DisplayImage(env.gx))
    /\ out' = Append(out, <<"gain", "gx">>)
    /\ pc' = "L118"
    /\ UNCHANGED <<fn, n1, n2, disk, exc, run>>

\* lines 118-119
Display_Samples ==
    /\ fn = "goDisplay" /\ pc = "L118"
    /\ env' = Bind(env, "samples", getLogSamples(disk["logs"]))
    /\ pc' = "L120"
    /\ UNCHANGED <<fn, n1, n2, disk, out, exc, run>>

\* line 120
Display_Plot ==
    /\ fn = "goDisplay" /\ pc = "L120"
    /\ out' = Append(out, <<"plot3", env.gx>>)
    /\ pc' = "done"
    /\ UNCHANGED <<fn, n1, n2, disk, env, exc, run>>

\* lines 221-224
FL_Read ==
    /\ fn = "goFaultLikelihood" /\ pc = "L224"
    /\ env' = Bind(env, "gx", disk[gxfile])
    /\ pc' = "L225"
    /\ UNCHANGED <<fn, n1, n2, disk, out, exc, run>>

\* line 225
FL_Gain ==
    /\ fn = "goFaultLikelihood" /\ pc = "L225"
    /\ env' = Bind(env, "gx", gain(env.gx))
    /\ out' = Append(out, <<"gain", "gx">>)
    /\ pc' = "L239"
    /\ UNCHANGED <<fn, n1, n2, disk, exc, run>>

\* lines 238-241: fl = readImage3D(flfile), then plot3(gx, fl).  flfile is
\* bound nowhere, so the lookup raises NameError before the display.
FL_Plot ==
    /\ fn = "goFaultLikelihood" /\ pc = "L239"
    /\ IF Resolves("flfile", env)
         THEN /\ out' = Append(out, <<"plot3", env.gx>>)
              /\ pc' = "done"
              /\ exc' = exc
         ELSE /\ out' = out
              /\ pc' = "raised"
              /\ exc' = "NameError"
    /\ UNCHANGED <<fn, n1, n2, disk, env, run>>

\* lines 244 and 254-255
Planar_Read ==
    /\ fn = "goPlanar" /\ pc = "L244"
    /\ env' = Bind(Bind(env, "gx", disk[gxfile]), "ep", disk[epfile])
    /\ pc' = "L258"
    /\ UNCHANGED <<fn, n1, n2, disk, out, exc, run>>

\* lines 258-260
Planar_Plot ==
    /\ fn = "goPlanar" /\ pc = "L258"
    /\ env' = Bind(env, "ep", pow(env.ep, 6))
    /\ out' = Append(out, <<"plot3", env.gx>>)
    /\ pc' = "done"
    /\ UNCHANGED <<fn, n1, n2, disk, exc, run>>

\* lines 263-265 and 274-278
FOS_Read ==
    /\ fn = "goFaultOrientScan" /\ pc = "L263"
    /\ env' = Bind(Bind(Bind(Bind(env, "gx", disk[gxfile]),
                   "ep", disk[epfile]), "fp", disk[fpfile]),
                   "fe", disk[fefile])
    /\ pc' = "L279"
    /\ UNCHANGED <<fn, n1, n2, disk, out, exc, run>>

\* lines 279-284: three displays over gx
FOS_Plot ==
    /\ fn = "goFaultOrientScan" /\ pc = "L279"
    /\ out' = out \o << <<"plot3", env.gx>>, <<"plot3", env.gx>>,
                        <<"plot3", env.gx>> >>
    /\ pc' = "done"
    /\ UNCHANGED <<fn, n1, n2, disk, env, exc, run>>

\* lines 287 and 300-303
SV_Read ==
    /\ fn = "goSurfaceVoting" /\ pc = "L287"
    /\ env' = Bind(Bind(Bind(env, "gx", disk[gxfile]),
                   "fv", disk[fvfile]), "ep", sub1(pow(disk[epfile], 8)))
    /\ pc' = "L304"
    /\ UNCHANGED <<fn, n1, n2, disk, out, exc, run>>

\* lines 304-307: two displays over gx
SV_Plot ==
    /\ fn = "goSurfaceVoting" /\ pc = "L304"
    /\ out' = out \o << <<"plot3", env.gx>>, <<"plot3", env.gx>> >>
    /\ pc' = "done"
    /\ UNCHANGED <<fn, n1, n2, disk, env, exc, run>>

\* the first line of each of these functions
FirstLine ==
    [f \in {"goDisplay", "goFaultLikelihood", "goPlanar",
            "goFaultOrientScan", "goSurfaceVoting"} |->
        CASE f = "goDisplay" -> "L116"
          [] f = "goFaultLikelihood" -> "L224"
          [] f = "goPlanar" -> "L244"
          [] f = "goFaultOrientScan" -> "L263"
          [] OTHER -> "L287"]

\* amplitudes of the base image: 0, 1 and -1
ImageVals == {0, Unit, 0 - Unit}

InitWorkflow ==
    /\ fn \in DOMAIN FirstLine /\ pc = FirstLine[fn]
    /\ n1 = MaxN1 /\ n2 = MaxN2
    /\ \E gx \in [Vox -> ImageVals] :
          disk = [k \in {gxfile, epfile, fpfile, fefile, fvfile, "logs"} |->
                    IF k = gxfile THEN gx
                    ELSE IF k = "logs"
                      THEN << [name |-> wns[1], fx |-> <<50>>, x1 |-> <<0>>] >>
                      ELSE [v \in Vox |-> Unit \div 2]]
    /\ env = NoEnv /\ out = <<>> /\ exc = "none" /\ run = 1

NextWorkflow ==
    \/ Display_Read \/ Display_Gain \/ Display_Samples \/ Display_Plot
    \/ FL_Read \/ FL_Gain \/ FL_Plot
    \/ Planar_Read \/ Planar_Plot
    \/ FOS_Read \/ FOS_Plot
    \/ SV_Read \/ SV_Plot

SpecWorkflow == InitWorkflow /\ [][NextWorkflow]_vars

\* a call that shows or analyses the base image it is given
IsConsumer(c) == c[1] = "plot3"

\* C6: the volume gain returns holds no NaN and no infinity, whatever the
\* input volume: the smoothed energy it divides by is nowhere zero.
C6_GainFinite ==
    (fn \in {"goDisplay", "goFaultLikelihood"}
        /\ pc \in {"L118", "L120", "L239", "done", "raised"}) =>
        \A v \in Vox : ~IsNaN(env.gx[v]) /\ ~IsInfinite(env.gx[v])

\* C9 as stated: in all five functions every display or analysis of the
\* base image is given the gain of the image read from gxfile.
C9_GainBeforeEveryUse ==
    fn \in DOMAIN FirstLine =>
        \A i \in 1 .. Len(out) :
            IsConsumer(out[i]) =>
                /\ out[i][2] = gain(disk[gxfile])
                /\ \E j \in 1 .. i - 1 : out[j][1] = "gain"

\* C9 amended: goDisplay and goFaultLikelihood apply gain to the image read
\* from gxfile before any display or analysis of it; goPlanar,
\* goFaultOrientScan and goSurfaceVoting never apply gain and display the
\* image as it was read.
C9_GainWhereApplied ==
    /\ fn \in {"goDisplay", "goFaultLikelihood"} =>
         /\ \A i \in 1 .. Len(out) :
               IsConsumer(out[i]) =>
                   /\ out[i][2] = gain(disk[gxfile])
                   /\ \E j \in 1 .. i - 1 : out[j][1] = "gain"
         /\ pc \in {"done", "raised"} =>
               \E j \in 1 .. Len(out) : out[j][1] = "gain"
    /\ fn \in {"goPlanar", "goFaultOrientScan", "goSurfaceVoting"} =>
         /\ \A i \in 1 .. Len(out) :
               out[i][1] # "gain" /\ out[i][2] = disk[gxfile]
         /\ pc = "done" => \E i \in 1 .. Len(out) : IsConsumer(out[i])

\* C9 witness: goDisplay has displayed the gained image, which differs from
\* the image in the file.
C9_Witness ==
    /\ fn = "goDisplay" /\ pc = "done"
    /\ Len(out) = 2 /\ out[1][1] = "gain"
    /\ out[2][1] = "plot3" /\ out[2][2] = gain(disk[gxfile])
    /\ \E v \in Vox : disk[gxfile][v] # 0

\* what clip(eps, 1.0, .) makes of one value a, in the order the comparisons
\* are made
Clipped(eps, a) == IF a < eps THEN eps ELSE IF a > Unit THEN Unit ELSE a

====
